---- MODULE Spec2Model ----
(***************************************************************************)
(* Cleartext JWS: JWSSigner.sign (src/lib/ct-jws/sign.js) and              *)
(* JWSVerifier.verify (src/unnamed/part_000, jws/verify.js).               *)
(*                                                                         *)
(* JavaScript values are tagged records [t, v, ref]: t is the type, v the  *)
(* content and ref the identity of an object (0 for primitives), so that   *)
(* === on objects is identity and === between types is false.  A header is *)
(* a function from the field names it has to values.  A promise callback   *)
(* is one action; the asynchronous steps of different signers interleave.  *)
(***************************************************************************)
EXTENDS Naturals, Sequences, FiniteSets

\* ----------------------------------------------------------------- bounds
MaxSigners == 3
MaxSignCalls == 2
MaxTamper == 1
MaxVerifiers == 2
MaxVerifyCalls == 2

\* ------------------------------------------------------------- JS values
Str(s) == [t |-> "str", v |-> s, ref |-> 0]
JsTrue == [t |-> "bool", v |-> "true", ref |-> 0]
JsFalse == [t |-> "bool", v |-> "false", ref |-> 0]
Undefined == [t |-> "undef", v |-> "", ref |-> 0]
Obj(content, id) == [t |-> "obj", v |-> content, ref |-> id]

JsBool(b) == IF b THEN JsTrue ELSE JsFalse

\* a === b: same type and value; two objects only when they are the same object
StrictEq(a, b) == JsBool(a = b)

\* if (x): false, undefined and "" are falsy
Truthy(x) == ~(x = JsFalse \/ x = Undefined \/ x = Str(""))

EmptyHeader == [f \in {} |-> Undefined]

Get(h, f) == IF f \in DOMAIN h THEN h[f] ELSE Undefined

\* lodash omit(h, ks)
Omit(h, ks) == [f \in (DOMAIN h) \ ks |-> h[f]]

\* lodash merge({}, a, b): b's fields over a's
Merge(a, b) == [f \in (DOMAIN a) \cup (DOMAIN b) |-> IF f \in DOMAIN b THEN b[f] ELSE a[f]]

\* header[f] = v
SetField(h, f, v) == [g \in (DOMAIN h) \cup {f} |-> IF g = f THEN v ELSE h[g]]

\* what JSON.stringify / cloneDeep keep of a header: the contents, not the identities
SerHeader(h) == [f \in DOMAIN h |-> [h[f] EXCEPT !.ref = 0]]

\* ------------------------------------------------------------------ keys
K1 == [kid |-> "k1", kty |-> "oct", alg |-> "HS256"]
K2 == [kid |-> "k2", kty |-> "RSA", alg |-> "RS256"]
Keys == {K1, K2}
NoKey == [kid |-> "none", kty |-> "none", alg |-> "none"]

\* ------------------------------------------------------------- documents
Absent == "absent"

\* one signer record, or the top level of the reserved field
Rec(h) == [h |-> h, signature |-> <<>>, valid |-> Absent, message |-> Absent]

NoBlock == [present |-> FALSE, top |-> Rec(EmptyHeader), hasSigners |-> FALSE, signers |-> <<>>]

\* data.__cleartext_signature = h
FlatBlock(r) == [present |-> TRUE, top |-> r, hasSigners |-> FALSE, signers |-> <<>>]

\* data.__cleartext_signature = g; data.__cleartext_signature.signers = ss
ArrayBlock(r, ss) == [present |-> TRUE, top |-> r, hasSigners |-> TRUE, signers |-> ss]

SerRec(r) == [r EXCEPT !.h = SerHeader(r.h)]

SerBlock(b) ==
  [b EXCEPT !.top = SerRec(b.top),
            !.signers = [i \in 1..Len(b.signers) |-> SerRec(b.signers[i])]]

\* new Buffer(JSON.stringify(data), "utf8")
Stringify(d) == [content |-> d.content, block |-> SerBlock(d.block)]

\* lodash cloneDeep(input)
CloneDeep(d) == [content |-> d.content, block |-> SerBlock(d.block)]


\* ----------------------------------------------------- createSign inputs
\* a signatory given to createSign: {key, header, reference}, or a falsy entry
Descriptor(k, h, r) == [missing |-> FALSE, key |-> k, header |-> h, reference |-> r]
MissingDescriptor == [missing |-> TRUE, key |-> NoKey, header |-> EmptyHeader, reference |-> Undefined]

Descriptors ==
  { MissingDescriptor,
    Descriptor(K1, EmptyHeader, Undefined),
    Descriptor(K1, [f \in {"typ"} |-> Str("a")], Undefined),
    Descriptor(K1, [f \in {"typ"} |-> JsFalse], Undefined),
    Descriptor(K2, EmptyHeader, Undefined),
    Descriptor(K1, EmptyHeader, Str("jwk")),
    Descriptor(K2, EmptyHeader, Str("jwk")) }

SignatoryLists == UNION { [1..n -> Descriptors] : n \in 1..MaxSigners }

\* signatories over every kind of reference and of key-identifying header field
ReferenceHeaders ==
  { EmptyHeader, [f \in {"jwk"} |-> Obj("given", MaxSigners + 1)] }
  \cup { [f \in {k} |-> Str("given")] : k \in {"kid", "jku", "x5c", "x5t", "x5u"} }

References == {Undefined, JsTrue, JsFalse, Str("kid"), Str("jwk"), Str("kty"), Str("x5t")}

ReferenceDescriptors ==
  { Descriptor(k, h, r) : k \in Keys, h \in ReferenceHeaders, r \in References }

\* ------------------------------------------------ createSign: resolution
\* opts.fields
AllFields == EmptyHeader

KeyRefFields == {"kid", "jku", "x5c", "x5t", "x5u"}

\* key.toJSON(): the public representation
KeyJSON(k) == [f \in {"kty", "kid"} |-> IF f = "kty" THEN Str(k.kty) ELSE Str(k.kid)]

\* header.alg defaulted from the key
EnsureAlg(h, k) == IF Truthy(Get(h, "alg")) THEN h ELSE SetField(h, "alg", Str(k.alg))

\* the key reference to embed: a field name, or "" for none
KeyReference(r, h) ==
  IF r = Undefined THEN (IF (DOMAIN h) \cap KeyRefFields # {} THEN "" ELSE "kid")
  ELSE IF r.t = "bool" THEN (IF r = JsTrue THEN "kid" ELSE "")
  ELSE r.v

CannotEmbedUnchecked(d, h) == FALSE

\* "jwk" === ref and "oct" === key.kty
CannotEmbed(d, h) == KeyReference(d.reference, h) = "jwk" /\ d.key.kty = "oct"

\* the header with the key reference embedded; i is the identity of the
\* object key.toJSON() returns for signatory i
EmbedReference(d, h, i) ==
  LET ref == KeyReference(d.reference, h) IN
  IF ref = "" THEN h
  ELSE IF ref = "jwk" THEN SetField(h, "jwk", Obj(d.key.kid, i))
  ELSE IF ref \in DOMAIN KeyJSON(d.key) THEN SetField(h, ref, KeyJSON(d.key)[ref])
  ELSE h

\* the outcome of resolving signatory i
ResolveSignatory(d, i) ==
  IF d.missing
  THEN [desc |-> d, st |-> "rejected", header |-> EmptyHeader, err |-> "missing key for signatory"]
  ELSE LET h == EnsureAlg(Merge(AllFields, d.header), d.key) IN
       IF CannotEmbed(d, h)
       THEN [desc |-> d, st |-> "rejected", header |-> EmptyHeader, err |-> "cannot embed key"]
       ELSE [desc |-> d, st |-> "resolved", header |-> EmbedReference(d, h, i), err |-> ""]

\* a signatory promise createSign has just made
Pending(d) == [desc |-> d, st |-> "pending", header |-> EmptyHeader, err |-> ""]

\* ------------------------------------------------------- sign: pure part
RECURSIVE ReduceStrictEq(_, _, _)
\* values.reduce((a, b) => a === b), from element i on with accumulator acc
ReduceStrictEq(values, i, acc) ==
  IF i > Len(values) THEN acc
  ELSE ReduceStrictEq(values, i + 1, StrictEq(acc, values[i]))

\* intersection(...keys)
CommonKeys(hs) == { f \in DOMAIN hs[1] : \A i \in 1..Len(hs) : f \in DOMAIN hs[i] }

AllEqual(hs, f) ==
  LET values == [i \in 1..Len(hs) |-> hs[i][f]] IN
  Truthy(ReduceStrictEq(values, 2, values[1]))

\* result.globalHeaders
GlobalHeaders(hs) ==
  IF Len(hs) = 1 THEN EmptyHeader
  ELSE LET ks == { f \in CommonKeys(hs) : AllEqual(hs, f) } IN
       [f \in ks |-> hs[1][f]]

OwnHeaderWhole(h, g) == h

\* headers = omit(s.header, Object.keys(input.globalHeaders))
OwnHeader(h, g) == Omit(h, DOMAIN g)

\* the reserved field while signer s is being signed
SigningBlock(n, h, g) ==
  IF n = 1 THEN FlatBlock(Rec(h))
  ELSE ArrayBlock(Rec(g), <<Rec(OwnHeader(h, g))>>)

\* key.sign(alg, tbs, header): result.mac
Mac(k, alg, bytes) == [key |-> k.kid, alg |-> alg, bytes |-> bytes]

\* util.base64url.encode / base64url.decode
B64Encode(m) == [b64 |-> m]
B64Decode(s) == s.b64

FinalBlockAsArray(b, sigs) == ArrayBlock(b.top, sigs)

\* the reserved field once every signature is in
FinalBlock(b, sigs) ==
  IF Len(sigs) = 1 THEN FlatBlock(sigs[1])
  ELSE ArrayBlock(b.top, sigs)

NewDoc(c) == [content |-> c, block |-> NoBlock]

VARIABLES
  signatories,    \* the promises given to JWSSigner: the signatories being resolved
  finalized,      \* JWSSigner's finalized flag
  data,           \* the caller's document
  calls,          \* sign calls made so far
  objectGiven,    \* whether a sign call was given an object
  callResult,     \* how the latest sign call returned
  spc,            \* where the accepted sign call's promise chain is
  serr,           \* the error sign rejected with
  globalHeaders,  \* result.globalHeaders
  ks              \* per signatory: its key.sign call and its headers object

signVars == <<signatories, finalized, data, calls, objectGiven, callResult, spc, serr, globalHeaders, ks>>

VARIABLES
  DEFAULT_OPTIONS, \* the module-level options object of verify.js
  verifiers,       \* the Verifiers made by createVerify: key and keystore of each
  tampers,         \* what the caller changed in the signed document
  vpc,             \* where the verify call is
  vopts,           \* the options of the verify call
  verr,            \* the error verify rejected with
  vcalls,          \* the verify calls made: the Verifier and the options of each
  scratch,         \* the deep copy verify works on
  vs               \* per signer record: its promise chain

verifyVars == <<DEFAULT_OPTIONS, verifiers, tampers, vpc, vopts, verr, vcalls, scratch, vs>>

vars == <<signVars, verifyVars>>

\* the signatories sign was constructed with
N == Len(signatories)

\* the state new JWSSigner(signList) leaves, for createSign's list l
Constructed(l) ==
  /\ signatories = [i \in DOMAIN l |-> Pending(l[i])]
  /\ finalized = FALSE
  /\ data = NewDoc("c0")
  /\ calls = 0
  /\ objectGiven = FALSE
  /\ callResult = "none"
  /\ spc = "idle"
  /\ serr = ""
  /\ globalHeaders = EmptyHeader
  /\ ks = <<>>

InitSign == \E l \in SignatoryLists : Constructed(l)

\* a signatory promise of createSign settles
Resolve(i) ==
  /\ signatories[i].st = "pending"
  /\ signatories' = [signatories EXCEPT ![i] = ResolveSignatory(signatories[i].desc, i)]
  /\ UNCHANGED <<finalized, data, calls, objectGiven, callResult, spc, serr, globalHeaders, ks>>
  /\ UNCHANGED verifyVars

\* if (finalized)
AlreadyFinalNever(f) == FALSE

AlreadyFinal(f) == f

\* sign(data) up to its return, given the caller's document or no object
SignCall(isObject) ==
  /\ calls < MaxSignCalls
  /\ calls' = calls + 1
  /\ objectGiven' = (objectGiven \/ isObject)
  /\ IF AlreadyFinal(finalized)
     THEN /\ callResult' = "already final"
          /\ UNCHANGED <<finalized, data, spc>>
     ELSE IF ~isObject
     THEN /\ callResult' = "Data to sign must be an object"
          /\ UNCHANGED <<finalized, data, spc>>
     ELSE /\ callResult' = "pending"
          /\ finalized' = TRUE
          /\ data' = [data EXCEPT !.block = FlatBlock(Rec(EmptyHeader))]
          /\ spc' = "waitAll"
  /\ UNCHANGED <<signatories, serr, globalHeaders, ks>>
  /\ UNCHANGED verifyVars

\* Promise.all(signatories) rejects with the error of a rejected signatory
SignatoryRejected(i) ==
  /\ spc = "waitAll"
  /\ signatories[i].st = "rejected"
  /\ spc' = "rejected"
  /\ serr' = signatories[i].err
  /\ UNCHANGED <<signatories, finalized, data, calls, objectGiven, callResult, globalHeaders, ks>>
  /\ UNCHANGED verifyVars

Headers == [i \in 1..N |-> signatories[i].header]

\* the first then: the global headers
SignGlobalHeaders ==
  /\ spc = "waitAll"
  /\ \A i \in 1..N : signatories[i].st = "resolved"
  /\ globalHeaders' = GlobalHeaders(Headers)
  /\ spc' = "global"
  /\ UNCHANGED <<signatories, finalized, data, calls, objectGiven, callResult, serr, ks>>
  /\ UNCHANGED verifyVars

\* the second then: sigs.map, which starts every key.sign call
SignMap ==
  /\ spc = "global"
  /\ ks' = [i \in 1..N |->
            LET blk == SigningBlock(N, Headers[i], globalHeaders) IN
            [st |-> "pending",
             rec |-> Rec(OwnHeader(Headers[i], globalHeaders)),
             alg |-> Get(Headers[i], "alg"),
             tbs |-> Stringify([data EXCEPT !.block = blk])]]
  /\ data' = [data EXCEPT !.block = SigningBlock(N, Headers[N], globalHeaders)]
  /\ spc' = "signing"
  /\ UNCHANGED <<signatories, finalized, calls, objectGiven, callResult, serr, globalHeaders>>
  /\ UNCHANGED verifyVars

\* key.sign of signatory i resolves: headers.signature = encode(result.mac)
KeySignDone(i) ==
  /\ i \in DOMAIN ks
  /\ ks[i].st = "pending"
  /\ ks' = [ks EXCEPT ![i].st = "done",
                      ![i].rec.signature = <<B64Encode(Mac(signatories[i].desc.key, ks[i].alg, ks[i].tbs))>>]
  /\ UNCHANGED <<signatories, finalized, data, calls, objectGiven, callResult, spc, serr, globalHeaders>>
  /\ UNCHANGED verifyVars

\* key.sign of signatory i rejects
KeySignFail(i) ==
  /\ i \in DOMAIN ks
  /\ ks[i].st = "pending"
  /\ ks' = [ks EXCEPT ![i].st = "failed"]
  /\ UNCHANGED <<signatories, finalized, data, calls, objectGiven, callResult, spc, serr, globalHeaders>>
  /\ UNCHANGED verifyVars

\* Promise.all(sigs) rejects with the error of a failed key.sign
KeySignRejected(i) ==
  /\ spc = "signing"
  /\ ks[i].st = "failed"
  /\ spc' = "rejected"
  /\ serr' = "key.sign failed"
  /\ UNCHANGED <<signatories, finalized, data, calls, objectGiven, callResult, globalHeaders, ks>>
  /\ UNCHANGED verifyVars

\* Promise.all(sigs) is fulfilled
AnySigned(k) == \E i \in DOMAIN k : k[i].st = "done"

AllSigned(k) == \A i \in DOMAIN k : k[i].st = "done"

\* the third then: the signatures are assembled into the document
SignAssemble ==
  /\ spc = "signing"
  /\ AllSigned(ks)
  /\ data' = [data EXCEPT !.block = FinalBlock(data.block, [i \in 1..N |-> ks[i].rec])]
  /\ spc' = "resolved"
  /\ UNCHANGED <<signatories, finalized, calls, objectGiven, callResult, serr, globalHeaders, ks>>
  /\ UNCHANGED verifyVars

\* ---------------------------------------------------- verify: pure part
\* DEFAULT_OPTIONS as the module defines it
DefaultOptions == [algorithms |-> "*", allowEmbeddedKey |-> FALSE]

\* an options object: the fields it has
NoOptions == [has |-> {}, algorithms |-> "*", allowEmbeddedKey |-> FALSE]
OptAlgorithms(a) == [has |-> {"algorithms"}, algorithms |-> a, allowEmbeddedKey |-> FALSE]
OptEmbedded(b) == [has |-> {"allowEmbeddedKey"}, algorithms |-> "*", allowEmbeddedKey |-> b]

CreateOptions == {NoOptions, OptAlgorithms("HS256"), OptEmbedded(TRUE)}
CallOptions == {NoOptions, OptAlgorithms("HS256")}

\* lodash merge(dst, src) on options objects: src's fields over dst's
MergeOptions(dst, src) ==
  [algorithms |-> IF "algorithms" \in src.has THEN src.algorithms ELSE dst.algorithms,
   allowEmbeddedKey |-> IF "allowEmbeddedKey" \in src.has THEN src.allowEmbeddedKey ELSE dst.allowEmbeddedKey]

\* new AlgConfig(opts.algorithms).match(alg)
AlgMatch(spec, alg) == spec = "*" \/ alg = Str(spec)

\* keystore.get({use: "sig", alg, kid})
KeystoreGet(store, alg, kid) ==
  LET found == { k \in store : /\ (kid = Undefined \/ kid = Str(k.kid))
                                /\ (alg = Undefined \/ alg = Str(k.alg)) } IN
  IF found = {} THEN NoKey ELSE CHOOSE k \in found : TRUE

\* what a Verifier is constructed from: a key, or a keystore
KeySource(k, store) == [assumedKey |-> k, keystore |-> store]
KeySources == {KeySource(NoKey, Keys), KeySource(NoKey, {K2}), KeySource(K1, {})}

\* getAlgKey: where the key comes from, and the key when it is at hand
GetAlgKey(opts, header, assumedKey, keystore) ==
  IF opts.allowEmbeddedKey /\ Truthy(Get(header, "jwk"))
  THEN [via |-> "jwk", key |-> NoKey]
  ELSE IF opts.allowEmbeddedKey /\ Truthy(Get(header, "x5c"))
  THEN [via |-> "x5c", key |-> NoKey]
  ELSE [via |-> "keystore",
        key |-> IF assumedKey # NoKey THEN assumedKey
                ELSE KeystoreGet(keystore, Get(header, "alg"), Get(header, "kid"))]

\* sigs = data.__cleartext_signature.signers || [data.__cleartext_signature]
SignerRecords(b) == IF b.hasSigners THEN b.signers ELSE <<b.top>>

\* signee = omit(sig, ['valid', 'message']); delete signee.signature
Signee(r) == Rec(r.h)

EffectiveHeaderSigneeLast(r, b) == Merge(b.top.h, r.h)

\* header = merge({}, signee, omit(data.__cleartext_signature, ['signers']))
EffectiveHeader(r, b) == Merge(r.h, b.top.h)

VerifyingBlockWhole(n, b, sg) == b

\* the reserved field of the scratch document while signer record sg is verified
VerifyingBlock(n, b, sg) ==
  IF n = 1 THEN FlatBlock(sg)
  ELSE [b EXCEPT !.signers = <<sg>>]

\* key.verify(alg, tbv, signature): result.valid
KeyVerify(k, alg, tbv, signature) == signature = Mac(k, alg, tbv)

WriteValidOnSignee(doc, n, index, valid) ==
  IF n # 1 THEN [doc EXCEPT !.block.signers[index] = [Signee(@) EXCEPT !.valid = valid]]
  ELSE doc

\* input.__cleartext_signature.signers[index].valid = result.valid
WriteValid(doc, n, index, valid) ==
  IF n # 1 THEN [doc EXCEPT !.block.signers[index].valid = valid]
  ELSE doc

\* the catch handler's writes
WriteFailure(doc, n, index, msg) ==
  IF n # 1
  THEN [doc EXCEPT !.block.signers[index].valid = "false",
                   !.block.signers[index].message = msg]
  ELSE [doc EXCEPT !.block.top.valid = "false", !.block.top.message = msg]

HeaderFields == {"alg", "kid", "typ", "jwk"}

\* a value a tampering caller writes into a header
Evil == Str("evil")


InitVerifier ==
  /\ DEFAULT_OPTIONS = DefaultOptions
  /\ verifiers = <<>>
  /\ tampers = <<>>
  /\ vpc = "idle"
  /\ vopts = DefaultOptions
  /\ verr = ""
  /\ vcalls = <<>>
  /\ scratch = NewDoc("c0")
  /\ vs = <<>>

\* ------------------------------------------------- the caller's tampering
Signed == spc = "resolved"

\* the signer records of the caller's document
Records == SignerRecords(data.block)

SetRecord(doc, i, r) ==
  IF doc.block.hasSigners THEN [doc EXCEPT !.block.signers[i] = r]
  ELSE [doc EXCEPT !.block.top = r]

TamperContent ==
  /\ Signed /\ vpc = "idle" /\ Len(tampers) < MaxTamper
  /\ data.content = "c0"
  /\ data' = [data EXCEPT !.content = "c1"]
  /\ tampers' = Append(tampers, [kind |-> "content", index |-> 0, field |-> ""])
  /\ UNCHANGED <<signatories, finalized, calls, objectGiven, callResult, spc, serr, globalHeaders, ks>>
  /\ UNCHANGED <<DEFAULT_OPTIONS, verifiers, vpc, vopts, verr, vcalls, scratch, vs>>

TamperHeader(i, f) ==
  /\ Signed /\ vpc = "idle" /\ Len(tampers) < MaxTamper
  /\ i \in DOMAIN Records
  /\ f \in DOMAIN Records[i].h
  /\ data' = SetRecord(data, i, [Records[i] EXCEPT !.h[f] = Evil])
  /\ tampers' = Append(tampers, [kind |-> "header", index |-> i, field |-> f])
  /\ UNCHANGED <<signatories, finalized, calls, objectGiven, callResult, spc, serr, globalHeaders, ks>>
  /\ UNCHANGED <<DEFAULT_OPTIONS, verifiers, vpc, vopts, verr, vcalls, scratch, vs>>

\* the caller gives signer record i a field that the global level also has
TamperAddField(i, f) ==
  /\ Signed /\ vpc = "idle" /\ Len(tampers) < MaxTamper
  /\ data.block.hasSigners
  /\ i \in DOMAIN data.block.signers
  /\ f \in DOMAIN data.block.top.h
  /\ f \notin DOMAIN data.block.signers[i].h
  /\ data' = [data EXCEPT !.block.signers[i].h = SetField(@, f, Evil)]
  /\ tampers' = Append(tampers, [kind |-> "add", index |-> i, field |-> f])
  /\ UNCHANGED <<signatories, finalized, calls, objectGiven, callResult, spc, serr, globalHeaders, ks>>
  /\ UNCHANGED <<DEFAULT_OPTIONS, verifiers, vpc, vopts, verr, vcalls, scratch, vs>>

DropAt(seq, i) == [j \in 1..(Len(seq) - 1) |-> IF j < i THEN seq[j] ELSE seq[j + 1]]

DropSigner(i) ==
  /\ Signed /\ vpc = "idle" /\ Len(tampers) < MaxTamper
  /\ data.block.hasSigners
  /\ i \in DOMAIN data.block.signers
  /\ Len(data.block.signers) >= 2
  /\ data' = [data EXCEPT !.block.signers = DropAt(data.block.signers, i)]
  /\ tampers' = Append(tampers, [kind |-> "drop", index |-> i, field |-> ""])
  /\ UNCHANGED <<signatories, finalized, calls, objectGiven, callResult, spc, serr, globalHeaders, ks>>
  /\ UNCHANGED <<DEFAULT_OPTIONS, verifiers, vpc, vopts, verr, vcalls, scratch, vs>>

\* ------------------------------------------------------- verify: actions
\* createVerify(ks, opts): globalOpts = merge(DEFAULT_OPTIONS, globalOpts), which
\* is the DEFAULT_OPTIONS object itself; given is the opts argument
CreateVerify(src, opts) ==
  /\ Len(verifiers) < MaxVerifiers
  /\ vpc = "idle"
  /\ DEFAULT_OPTIONS' = MergeOptions(DEFAULT_OPTIONS, opts)
  /\ verifiers' = Append(verifiers, [assumedKey |-> src.assumedKey, keystore |-> src.keystore, given |-> opts])
  /\ UNCHANGED signVars
  /\ UNCHANGED <<tampers, vpc, vopts, verr, vcalls, scratch, vs>>

\* the promise chain of one signer record, as sigs.map starts it
StartChain(r, b, opts, v) ==
  LET header == EffectiveHeader(r, b)
      alg == Get(header, "alg")
      look == GetAlgKey(opts, header, v.assumedKey, v.keystore) IN
  [pc |-> IF AlgMatch(opts.algorithms, alg) THEN "lookup" ELSE "algRejected",
   signee |-> Signee(r),
   header |-> header,
   signature |-> B64Decode(r.signature[1]),
   via |-> look.via,
   key |-> look.key,
   tbv |-> NewDoc("c0"),
   result |-> Absent,
   err |-> IF AlgMatch(opts.algorithms, alg) THEN "" ELSE "Algorithm not allowed"]

\* getAlgKey's JWK.asKey(sig.jwk): sig has no jwk, so it is asKey(undefined)
AsKeyOfUndefined(c) == c.pc = "lookup" /\ c.via = "jwk"

\* verifier.verify(input, opts) up to its return; asKey(undefined) either
\* returns a rejected promise or throws, which ends sigs.map and verify
VerifyCall(v, opts) ==
  /\ Signed /\ vpc \in {"idle", "resolved"}
  /\ Len(vcalls) < MaxVerifyCalls
  /\ v \in DOMAIN verifiers
  /\ \A i \in DOMAIN Records : Records[i].signature # <<>>
  /\ LET o == MergeOptions(DEFAULT_OPTIONS, opts)
         clone == CloneDeep(data)
         sigs == SignerRecords(clone.block)
         chains == [i \in DOMAIN sigs |-> StartChain(sigs[i], clone.block, o, verifiers[v])]
         undef == { i \in DOMAIN chains : AsKeyOfUndefined(chains[i]) } IN
     /\ vopts' = o
     /\ vcalls' = Append(vcalls, [verifier |-> v, opts |-> opts])
     /\ scratch' = clone
     /\ \/ /\ vs' = chains
           /\ vpc' = "running"
        \/ /\ undef # {}
           /\ vs' = [i \in DOMAIN chains |->
                      IF \E j \in undef : j <= i
                      THEN [chains[i] EXCEPT !.pc = "unstarted"]
                      ELSE chains[i]]
           /\ vpc' = "threw"
  /\ UNCHANGED signVars
  /\ UNCHANGED <<DEFAULT_OPTIONS, verifiers, tampers, verr>>

\* the first then of signer i: the key lookup has settled
KeyResolved(i) ==
  /\ i \in DOMAIN vs
  /\ vs[i].pc = "lookup"
  /\ \/ /\ vs[i].via = "keystore"
        /\ vs' = IF vs[i].key = NoKey
                 THEN [vs EXCEPT ![i].pc = "failed", ![i].err = "Key does not match"]
                 ELSE [vs EXCEPT ![i].pc = "keyed"]
     \/ /\ vs[i].via = "jwk"
        /\ vs' = [vs EXCEPT ![i].pc = "failed", ![i].err = "asKey failed"]
     \/ /\ vs[i].via = "x5c"
        /\ \E k \in Keys : vs' = [vs EXCEPT ![i].pc = "keyed", ![i].key = k]
  /\ UNCHANGED signVars
  /\ UNCHANGED <<DEFAULT_OPTIONS, verifiers, tampers, vpc, vopts, verr, vcalls, scratch>>

\* the second then of signer i: the bytes are rebuilt and key.verify is called
BuildTbv(i) ==
  /\ i \in DOMAIN vs
  /\ vs[i].pc = "keyed"
  /\ scratch' = [scratch EXCEPT !.block = VerifyingBlock(Len(vs), scratch.block, vs[i].signee)]
  /\ vs' = [vs EXCEPT ![i].pc = "verifying", ![i].tbv = Stringify(scratch')]
  /\ UNCHANGED signVars
  /\ UNCHANGED <<DEFAULT_OPTIONS, verifiers, tampers, vpc, vopts, verr, vcalls>>

\* result.valid as the document holds it
ValidOf(b) == IF b THEN "true" ELSE "false"

Matches(i) == KeyVerify(vs[i].key, Get(vs[i].header, "alg"), vs[i].tbv, vs[i].signature)

\* the third then of signer i: key.verify resolved with result
KeyVerifyDone(i) ==
  /\ i \in DOMAIN vs
  /\ vs[i].pc = "verifying"
  /\ data' = WriteValid(data, Len(vs), i, ValidOf(Matches(i)))
  /\ vs' = [vs EXCEPT ![i].pc = "done", ![i].result = ValidOf(Matches(i))]
  /\ UNCHANGED <<signatories, finalized, calls, objectGiven, callResult, spc, serr, globalHeaders, ks>>
  /\ UNCHANGED <<DEFAULT_OPTIONS, verifiers, tampers, vpc, vopts, verr, vcalls, scratch>>

\* key.verify of signer i rejects, as a key may on a mismatch
KeyVerifyFail(i) ==
  /\ i \in DOMAIN vs
  /\ vs[i].pc = "verifying"
  /\ ~Matches(i)
  /\ vs' = [vs EXCEPT ![i].pc = "failed", ![i].err = "verification failed"]
  /\ UNCHANGED signVars
  /\ UNCHANGED <<DEFAULT_OPTIONS, verifiers, tampers, vpc, vopts, verr, vcalls, scratch>>

\* the catch of signer i
Catch(i) ==
  /\ i \in DOMAIN vs
  /\ vs[i].pc = "failed"
  /\ data' = WriteFailure(data, Len(vs), i, vs[i].err)
  /\ vs' = [vs EXCEPT ![i].pc = "caught"]
  /\ UNCHANGED <<signatories, finalized, calls, objectGiven, callResult, spc, serr, globalHeaders, ks>>
  /\ UNCHANGED <<DEFAULT_OPTIONS, verifiers, tampers, vpc, vopts, verr, vcalls, scratch>>

\* Promise.all(sigs) resolves: verify resolves with input
VerifyResolved ==
  /\ vpc = "running"
  /\ \A i \in DOMAIN vs : vs[i].pc \in {"done", "caught"}
  /\ vpc' = "resolved"
  /\ UNCHANGED signVars
  /\ UNCHANGED <<DEFAULT_OPTIONS, verifiers, tampers, vopts, verr, vcalls, scratch, vs>>

\* Promise.all(sigs) rejects with the rejection sigs.map returned for signer i
VerifyRejected(i) ==
  /\ vpc = "running"
  /\ i \in DOMAIN vs
  /\ vs[i].pc = "algRejected"
  /\ vpc' = "rejected"
  /\ verr' = vs[i].err
  /\ UNCHANGED signVars
  /\ UNCHANGED <<DEFAULT_OPTIONS, verifiers, tampers, vopts, vcalls, scratch, vs>>

\* ------------------------------------------- the documents sign produces
\* the signatories of the documents given to verify: they all resolve
VerifyDescriptors ==
  { Descriptor(K1, EmptyHeader, Undefined),
    Descriptor(K2, EmptyHeader, Undefined),
    Descriptor(K2, EmptyHeader, Str("jwk")) }
ResolvableLists == UNION { [1..n -> VerifyDescriptors] : n \in 1..MaxSigners }

Resolved(l) == [i \in DOMAIN l |-> ResolveSignatory(l[i], i)]

\* the key.sign calls of a sign call on doc, all resolved
SignedKS(l, doc) ==
  LET hs == [i \in DOMAIN l |-> Resolved(l)[i].header]
      g == GlobalHeaders(hs) IN
  [i \in DOMAIN l |->
     LET tbs == Stringify([doc EXCEPT !.block = SigningBlock(Len(l), hs[i], g)])
         alg == Get(hs[i], "alg") IN
     [st |-> "done",
      rec |-> [Rec(OwnHeader(hs[i], g)) EXCEPT !.signature = <<B64Encode(Mac(l[i].key, alg, tbs))>>],
      alg |-> alg,
      tbs |-> tbs]]

\* the document sign resolves with
SignedDocument(l, doc) ==
  LET hs == [i \in DOMAIN l |-> Resolved(l)[i].header]
      g == GlobalHeaders(hs)
      last == SigningBlock(Len(l), hs[Len(l)], g) IN
  [doc EXCEPT !.block = FinalBlock(last, [i \in DOMAIN l |-> SignedKS(l, doc)[i].rec])]

\* the state a resolved sign call on the signatories l leaves
SignedState(l) ==
  /\ signatories = Resolved(l)
  /\ finalized = TRUE
  /\ data = SignedDocument(l, NewDoc("c0"))
  /\ calls = 1
  /\ objectGiven = TRUE
  /\ callResult = "pending"
  /\ spc = "resolved"
  /\ serr = ""
  /\ globalHeaders = GlobalHeaders([i \in DOMAIN l |-> Resolved(l)[i].header])
  /\ ks = SignedKS(l, NewDoc("c0"))

InitSigned == \E l \in ResolvableLists : SignedState(l)

\* sign resolves with exactly the documents the Verifier is given
SignedAsModelled ==
  spc = "resolved" =>
    LET l == [i \in 1..N |-> signatories[i].desc] IN
    /\ data = SignedDocument(l, NewDoc("c0"))
    /\ ks = SignedKS(l, NewDoc("c0"))
    /\ globalHeaders = GlobalHeaders([i \in DOMAIN l |-> Resolved(l)[i].header])

\* ------------------------------------------------------------ the claims
\* record i of the caller's document, as verify's index i addresses it
InputRecord(i) == Records[i]

RECURSIVE OriginFrom(_, _)
\* the signatory whose record is at position i after the first n tamperings
OriginFrom(i, n) ==
  IF n = 0 THEN i
  ELSE IF tampers[n].kind = "drop" /\ i >= tampers[n].index THEN OriginFrom(i + 1, n - 1)
  ELSE OriginFrom(i, n - 1)

Origin(i) == OriginFrom(i, Len(tampers))

\* verify looked signer i's key up and the verifier holds the key that signed
SigningKeyResolved(i) == vs[i].key = signatories[Origin(i)].desc.key

\* no key was found for signer k: keystore.get returned none, no assumed key
KeyUnresolved(k) ==
  /\ vs[k].pc \notin {"algRejected", "unstarted"}
  /\ vs[k].via = "keystore"
  /\ vs[k].key = NoKey

\* C1: when the allow-list does not match a signer's algorithm, verify does
\* not reject: it resolves, and that signer's record has valid = false and a
\* message naming the algorithm.
C1_AllowListFailsSoftly ==
  \A i \in DOMAIN vs :
    vs[i].err = "Algorithm not allowed" =>
      /\ vpc # "rejected"
      /\ vpc = "resolved" =>
            /\ InputRecord(i).valid = "false"
            /\ InputRecord(i).message = "Algorithm not allowed"

\* C2: with N >= 2 signers and signer k's key unresolved, verify never
\* rejects; once it resolved, k has valid = false and a message and every
\* other signer has the validity its key.verify call returned.
C2_KeyFailureIsolated ==
  \A k \in DOMAIN vs :
    (Len(vs) >= 2 /\ KeyUnresolved(k)) =>
      /\ vpc # "rejected"
      /\ vpc = "resolved" =>
            /\ InputRecord(k).valid = "false"
            /\ InputRecord(k).message # Absent
            /\ \A i \in DOMAIN vs :
                  vs[i].pc = "done" => InputRecord(i).valid = vs[i].result

\* the one tampering of the document changed what signer i's bytes are made of
Affected(i) ==
  \/ tampers[1].kind = "content"
  \/ tampers[1].kind = "header" /\ tampers[1].index = i

\* every key.verify call resolved with {valid}
KeyVerifyReturns == \A i \in DOMAIN vs : vs[i].err # "verification failed"

\* C3: with key.verify returning {valid}, after a content field or one
\* signer's own header field was changed, the signers whose bytes changed end
\* with valid = false and a message, the co-signers with valid = true.
C3_TamperDetected ==
  (/\ vpc = "resolved"
   /\ Len(tampers) = 1
   /\ tampers[1].kind \in {"content", "header"}
   /\ KeyVerifyReturns) =>
    \A i \in DOMAIN vs :
      /\ Affected(i) =>
            InputRecord(i).valid = "false" /\ InputRecord(i).message # Absent
      /\ (~Affected(i) /\ SigningKeyResolved(i)) => InputRecord(i).valid = "true"

\* C4: verify(sign(D)), with every signer's key resolved by the verifier,
\* resolves with valid = true on every signer and D's content unchanged.
C4_RoundTrip ==
  (/\ vpc = "resolved"
   /\ tampers = <<>>
   /\ \A i \in DOMAIN vs : SigningKeyResolved(i)) =>
    /\ \A i \in DOMAIN vs : InputRecord(i).valid = "true"
    /\ data.content = "c0"

\* C5: once verify resolved, every signer record has a boolean valid, and a
\* message when valid is false.
C5_ValidOnEveryRecord ==
  vpc = "resolved" =>
    \A i \in DOMAIN Records :
      /\ Records[i].valid \in {"true", "false"}
      /\ Records[i].valid = "false" => Records[i].message # Absent

\* C6: a document of two signatories with identical headers, one signers
\* entry dropped: the remaining signer is verified over the bytes signed, in
\* the signers-array form, and valid = true is written on its signers entry.
C6_DroppedToOneVerifies ==
  (/\ vpc = "resolved"
   /\ N = 2
   /\ signatories[1].header = signatories[2].header
   /\ Len(tampers) = 1
   /\ tampers[1].kind = "drop"
   /\ SigningKeyResolved(1)) =>
    /\ vs[1].tbv = ks[Origin(1)].tbs
    /\ data.block.signers[1].valid = "true"

\* the values are equal as JSON values
DeepEq(a, b) == [a EXCEPT !.ref = 0] = [b EXCEPT !.ref = 0]

\* every signatory has header field f, with the same value
Shared(f) ==
  \A i \in 1..N :
    /\ f \in DOMAIN signatories[i].header
    /\ DeepEq(signatories[i].header[f], signatories[1].header[f])

\* C7: for N >= 2 signatories, a header field is global in the signed
\* document exactly when every signatory has it with the same value, and a
\* global field is in no per-signer record.
C7_GlobalIffShared ==
  (spc = "resolved" /\ N >= 2) =>
    \A f \in UNION { DOMAIN signatories[i].header : i \in 1..N } :
      /\ (f \in DOMAIN data.block.top.h) <=> Shared(f)
      /\ f \in DOMAIN data.block.top.h =>
            \A i \in DOMAIN data.block.signers : f \notin DOMAIN data.block.signers[i].h

\* C8 as stated: after any earlier sign call, a sign call rejects with
\* "already final" and leaves the document as it is.
C8_AnyEarlierCallFinalizes ==
  [][(calls >= 1 /\ calls' = calls + 1) =>
       (callResult' = "already final" /\ data' = data)]_vars

\* C8 amended: after a sign call that was given an object, settled or not,
\* every sign call rejects with "already final" and leaves the document as
\* it is.
C8_SingleUse ==
  [][(objectGiven /\ calls' = calls + 1) =>
       (callResult' = "already final" /\ data' = data)]_vars

\* a later call was rejected while the accepted call had not settled
C8_Witness == callResult = "already final" /\ spc = "waitAll" /\ calls = 2

\* the signatories of the caller's document that have a signature in it
SignedIn == { i \in DOMAIN Records : Records[i].signature # <<>> }

\* the errors of the failures so far
FailureErrors ==
  { signatories[i].err : i \in { j \in 1..N : signatories[j].st = "rejected" } }
  \cup { "key.sign failed" : i \in { j \in DOMAIN ks : ks[j].st = "failed" } }

\* C9: the document holds no signature, or (once sign resolved) the
\* signatures of all signatories; sign never resolves after a failure, and
\* rejects with the error of a failed resolution or key.sign call.
C9_AllOrNothing ==
  /\ \/ SignedIn = {}
     \/ spc = "resolved" /\ Len(Records) = N /\ SignedIn = 1..N
  /\ spc = "resolved" => FailureErrors = {}
  /\ spc = "rejected" => serr \in FailureErrors

\* sign rejected for one key.sign failure while another key.sign succeeded
C9_Witness ==
  /\ spc = "rejected"
  /\ \E i, j \in DOMAIN ks : ks[i].st = "done" /\ ks[j].st = "failed"
  /\ SignedIn = {}

\* signatory i asks for reference "jwk" with a symmetric key
EmbedsSecret(i) ==
  signatories[i].desc.reference = Str("jwk") /\ signatories[i].desc.key.kty = "oct"

\* no header holds the jwk of a symmetric key
NoSecretInHeaders ==
  /\ \A i \in 1..N :
        "jwk" \in DOMAIN signatories[i].header => signatories[i].desc.key.kty # "oct"
  /\ \A i \in DOMAIN Records :
        "jwk" \in DOMAIN Records[i].h => Records[i].h["jwk"].v # K1.kid

\* C10 as stated: with a signatory asking for "jwk" on a symmetric key, sign
\* rejects with "cannot embed key", key.sign is never called and no header
\* holds the secret key.
C10_RejectsCannotEmbed ==
  (\E i \in 1..N : EmbedsSecret(i)) =>
    /\ spc \notin {"global", "signing", "resolved"}
    /\ spc = "rejected" => serr = "cannot embed key"
    /\ ks = <<>>
    /\ NoSecretInHeaders

\* C10 amended: sign never gets past waiting for the signatories and rejects
\* with "cannot embed key" or with the error of another signatory whose
\* resolution failed; key.sign is never called, no header holds the secret.
C10_RejectsBeforeSigning ==
  (\E i \in 1..N : EmbedsSecret(i)) =>
    /\ spc \notin {"global", "signing", "resolved"}
    /\ spc = "rejected" =>
          serr \in {"cannot embed key"} \cup
                   { signatories[j].err : j \in { k \in 1..N : signatories[k].st = "rejected" } }
    /\ ks = <<>>
    /\ NoSecretInHeaders

\* sign rejected with "cannot embed key" while another signatory had resolved
C10_Witness ==
  /\ spc = "rejected"
  /\ serr = "cannot embed key"
  /\ \E i, j \in 1..N : EmbedsSecret(i) /\ signatories[j].st = "resolved"

\* C11: for N >= 2 signatories, entry i of the signers array holds the own
\* header fields (those that are not global) and the signature of the i-th
\* signatory given to createSign, whatever order the resolutions and the
\* key.sign calls completed in.
C11_SignersInInputOrder ==
  (spc = "resolved" /\ N >= 2) =>
    /\ Len(data.block.signers) = N
    /\ \A i \in 1..N :
          LET r == data.block.signers[i] IN
          /\ r.h = Omit(signatories[i].header, DOMAIN data.block.top.h)
          /\ r.signature = <<ks[i].rec.signature[1]>>
          /\ B64Decode(r.signature[1]).key = signatories[i].desc.key.kid
          /\ B64Decode(r.signature[1]).bytes.block.signers[1].h = SerHeader(r.h)

\* sign resolved for three signatories with different keys and own headers
C11_Witness ==
  /\ spc = "resolved"
  /\ N = 3
  /\ signatories[1].desc.key # signatories[2].desc.key
  /\ data.block.signers[1].h # data.block.signers[2].h
  /\ data.block.signers[2].h # data.block.signers[3].h

\* the defaults of Verifier v: {algorithms: "*", allowEmbeddedKey: false}
\* overridden by the options it was created with
OwnOptions(v) == MergeOptions(DefaultOptions, verifiers[v].given)

\* C12: a verify call works with the defaults of its own Verifier overridden
\* by the options of the call; Verifiers created before or after it, with
\* or without options, do not change them.
C12_OptionsPerInstance ==
  vcalls # <<>> =>
    LET c == vcalls[Len(vcalls)] IN
    vopts = MergeOptions(OwnOptions(c.verifier), c.opts)

\* the Verifier of the latest verify call
Caller == verifiers[vcalls[Len(vcalls)].verifier]

\* the key lookup of signer i has settled
LookupSettled(i) == vs[i].pc \notin {"lookup", "algRejected", "unstarted"}

\* the lookup of signer i gave a key
KeyInHand(i) ==
  \/ vs[i].pc \in {"keyed", "verifying", "done"}
  \/ vs[i].pc \in {"failed", "caught"} /\ vs[i].err = "verification failed"

\* C13: the key of a signer is, in this order: with allowEmbeddedKey, the key
\* made from the effective header's jwk, else from its x5c; else the
\* Verifier's assumed key; else what keystore.get finds for the header's alg
\* and kid.  Without allowEmbeddedKey it never comes from the document.
C13_KeyResolutionOrder ==
  \A i \in DOMAIN vs :
    LookupSettled(i) =>
      LET h == vs[i].header IN
      IF vopts.allowEmbeddedKey /\ "jwk" \in DOMAIN h /\ h["jwk"].t = "obj"
      THEN KeyInHand(i) /\ vs[i].key.kid = h["jwk"].v
      ELSE IF vopts.allowEmbeddedKey /\ Truthy(Get(h, "x5c"))
      THEN vs[i].via = "x5c"
      ELSE /\ vs[i].via = "keystore"
           /\ IF Caller.assumedKey # NoKey
              THEN KeyInHand(i) /\ vs[i].key = Caller.assumedKey
              ELSE /\ vs[i].key = KeystoreGet(Caller.keystore, Get(h, "alg"), Get(h, "kid"))
                   /\ KeyInHand(i) <=> vs[i].key # NoKey

\* the reserved field b holds no signature at all
NoSignature(b) ==
  /\ b.top.signature = <<>>
  /\ \A j \in DOMAIN b.signers : b.signers[j].signature = <<>>

\* the reserved field b holds one signer, with header h and nothing else
OnlySigner(b, h) == SignerRecords(b) = <<Rec(SerHeader(h))>>

\* the bytes of signer i were handed to key.verify
BytesBuilt(i) ==
  \/ vs[i].pc \in {"verifying", "done"}
  \/ vs[i].pc \in {"failed", "caught"} /\ vs[i].err = "verification failed"

\* C14: the bytes handed to key.sign and to key.verify for signer i hold, in
\* the reserved field, the header of signer i only: no signature, and no
\* record of another signer, in every interleaving of the signers' steps on
\* the shared document.
C14_BytesOfOneSigner ==
  /\ \A i \in DOMAIN ks :
        /\ NoSignature(ks[i].tbs.block)
        /\ OnlySigner(ks[i].tbs.block, OwnHeader(signatories[i].header, globalHeaders))
  /\ \A i \in DOMAIN vs :
        BytesBuilt(i) =>
          /\ NoSignature(vs[i].tbv.block)
          /\ OnlySigner(vs[i].tbv.block, InputRecord(i).h)

\* the bytes of two of three signers were built on the shared scratch document
C14_Witness ==
  /\ Len(vs) = 3
  /\ vs[1].pc = "verifying"
  /\ vs[3].pc = "verifying"
  /\ vs[2].pc = "lookup"
  /\ vs[1].tbv # vs[3].tbv

\* all of a document but the valid and message annotations
Frame(d) ==
  [content |-> d.content,
   present |-> d.block.present,
   hasSigners |-> d.block.hasSigners,
   global |-> d.block.top.h,
   signature |-> d.block.top.signature,
   signers |-> [i \in DOMAIN d.block.signers |->
                  [h |-> d.block.signers[i].h, signature |-> d.block.signers[i].signature]]]

KeyIdentifying == {"kid", "jwk", "jku", "x5c", "x5t", "x5u"}

\* C16: a resolved signatory's header is its merged header plus: kid from the
\* key for reference true; nothing for reference false; the named field of
\* the key's public representation for a string reference; and for no
\* reference, kid exactly when the merged header has no key-identifying field.
C16_KeyReferenceEmbedding ==
  \A i \in 1..N :
    signatories[i].st = "resolved" =>
      LET d == signatories[i].desc
          h == signatories[i].header
          merged == EnsureAlg(Merge(AllFields, d.header), d.key)
          pub == KeyJSON(d.key)
          withKid == SetField(merged, "kid", pub["kid"]) IN
      IF d.reference = JsTrue THEN h = withKid
      ELSE IF d.reference = JsFalse THEN h = merged
      ELSE IF d.reference = Undefined
      THEN h = (IF (DOMAIN merged) \cap KeyIdentifying = {} THEN withKid ELSE merged)
      ELSE IF d.reference = Str("jwk")
      THEN /\ Omit(h, {"jwk"}) = Omit(merged, {"jwk"})
           /\ "jwk" \in DOMAIN h /\ h["jwk"].v = d.key.kid
      ELSE IF d.reference.v \in DOMAIN pub
      THEN h = SetField(merged, d.reference.v, pub[d.reference.v])
      ELSE h = merged

\* field f of signer i as the claim has it: the global value when the
\* reserved field has one, else the signer record's
Overlaid(i, f) ==
  IF f \in DOMAIN data.block.top.h
  THEN SerHeader(data.block.top.h)[f]
  ELSE Get(SerHeader(InputRecord(i).h), f)

\* C17: the effective header of a signer is its record overlaid with the
\* global fields; where both have a field, the global value decides the
\* allow-list check, the keystore selector (alg, kid) and the alg given to
\* key.verify.
C17_GlobalFieldsPrevail ==
  \A i \in DOMAIN vs :
    vs[i].pc # "unstarted" =>
      /\ \A f \in HeaderFields : Get(vs[i].header, f) = Overlaid(i, f)
      /\ vs[i].pc = "algRejected" <=> ~AlgMatch(vopts.algorithms, Overlaid(i, "alg"))
      /\ (vs[i].via = "keystore" /\ Caller.assumedKey = NoKey) =>
            vs[i].key = KeystoreGet(Caller.keystore, Overlaid(i, "alg"), Overlaid(i, "kid"))
      /\ vs[i].pc = "done" =>
            vs[i].result = ValidOf(KeyVerify(vs[i].key, Overlaid(i, "alg"), vs[i].tbv, vs[i].signature))

\* a signer record was given an alg that differs from the global alg, and
\* the signer's key was found in the keystore and key.verify called
C17_Witness ==
  /\ Len(tampers) = 1
  /\ tampers[1].kind = "add"
  /\ tampers[1].field = "alg"
  /\ LET i == tampers[1].index IN
     /\ i \in DOMAIN vs
     /\ vs[i].pc = "done"
     /\ vs[i].key = K1
     /\ InputRecord(i).h["alg"] # data.block.top.h["alg"]

\* C18: when sign resolves, the reserved field has the form N decides: for
\* N = 1 the signatory's header with a top-level signature and no signers
\* field; for N > 1 a signers array of N records, each with a signature, and
\* no top-level signature.
C18_FormByCount ==
  spc = "resolved" =>
    LET b == data.block IN
    /\ b.present
    /\ IF N = 1
       THEN /\ ~b.hasSigners /\ b.signers = <<>>
            /\ b.top.h = signatories[1].header
            /\ b.top.signature # <<>>
       ELSE /\ b.hasSigners /\ Len(b.signers) = N
            /\ \A i \in 1..N : b.signers[i].signature # <<>>
            /\ b.top.signature = <<>>

\* sign resolved for a single signatory
C18_Witness ==
  /\ spc = "resolved"
  /\ N = 1
  /\ data.block.top.signature # <<>>

\* C19: once a verify call resolved, a signer whose key.verify said valid in
\* this call has neither valid = false nor a message left from an earlier
\* call on the same document.
C19_LatestOutcome ==
  vpc = "resolved" =>
    \A i \in DOMAIN vs :
      (vs[i].pc = "done" /\ vs[i].result = "true") =>
        /\ InputRecord(i).valid # "false"
        /\ InputRecord(i).message = Absent

\* C20: for N >= 2 signatories, the effective header verify rebuilds for
\* signer i from the signed document (its record overlaid with the global
\* fields) is the header signatory i was resolved with and signed with.
C20_FactoringLossless ==
  (spc = "resolved" /\ N >= 2) =>
    LET b == CloneDeep(data).block IN
    \A i \in 1..N :
      EffectiveHeader(SignerRecords(b)[i], b) = SerHeader(signatories[i].header)

\* ------------------------------------------------------- specifications
\* the Signer: createSign's signatories and the sign calls on them
NextSign ==
  \/ \E i \in 1..N : Resolve(i)
  \/ \E isObject \in BOOLEAN : SignCall(isObject)
  \/ \E i \in 1..N : SignatoryRejected(i)
  \/ SignGlobalHeaders
  \/ SignMap
  \/ \E i \in 1..N : KeySignDone(i)
  \/ \E i \in 1..N : KeySignFail(i)
  \/ \E i \in 1..N : KeySignRejected(i)
  \/ SignAssemble

InitSigning == InitSign /\ InitVerifier

SpecSign == InitSigning /\ [][NextSign]_vars

\* one signatory, over every kind of key reference
InitResolving == (\E d \in ReferenceDescriptors : Constructed(<<d>>)) /\ InitVerifier

SpecResolve == InitResolving /\ [][NextSign]_vars

\* one Verifier and one verify call, on a document the caller may have changed
NextVerify ==
  \/ TamperContent
  \/ \E i \in 1..MaxSigners, f \in HeaderFields : TamperHeader(i, f)
  \/ \E i \in 1..MaxSigners, f \in HeaderFields : TamperAddField(i, f)
  \/ \E i \in 1..MaxSigners : DropSigner(i)
  \/ \E src \in KeySources, o \in CreateOptions : verifiers = <<>> /\ CreateVerify(src, o)
  \/ \E v \in 1..MaxVerifiers, o \in CallOptions : vcalls = <<>> /\ VerifyCall(v, o)
  \/ \E i \in 1..MaxSigners : KeyResolved(i)
  \/ \E i \in 1..MaxSigners : BuildTbv(i)
  \/ \E i \in 1..MaxSigners : KeyVerifyDone(i)
  \/ \E i \in 1..MaxSigners : KeyVerifyFail(i)
  \/ \E i \in 1..MaxSigners : Catch(i)
  \/ VerifyResolved
  \/ \E i \in 1..MaxSigners : VerifyRejected(i)

\* the Verifier, on the documents sign resolves with
InitVerifying == InitSigned /\ InitVerifier

SpecVerify == InitVerifying /\ [][NextVerify]_vars

\* several Verifiers and several verify calls on one signed document
ShortLists == { l \in ResolvableLists : Len(l) <= 2 }

InitReverify == (\E l \in ShortLists : SignedState(l)) /\ InitVerifier

NextReverify ==
  \/ \E src \in KeySources, o \in CreateOptions : CreateVerify(src, o)
  \/ \E v \in 1..MaxVerifiers, o \in CallOptions : VerifyCall(v, o)
  \/ \E i \in 1..MaxSigners : KeyResolved(i)
  \/ \E i \in 1..MaxSigners : BuildTbv(i)
  \/ \E i \in 1..MaxSigners : KeyVerifyDone(i)
  \/ \E i \in 1..MaxSigners : KeyVerifyFail(i)
  \/ \E i \in 1..MaxSigners : Catch(i)
  \/ VerifyResolved
  \/ \E i \in 1..MaxSigners : VerifyRejected(i)

SpecReverify == InitReverify /\ [][NextReverify]_vars

====
